---------------------------- MODULE Spec2Model ----------------------------
(***************************************************************************)
(* A model of the Alpaca broker client (broker_alpaca.py, broker_errors.py)*)
(* as a state machine: the credential fields of the AlpacaBroker object,   *)
(* the callers that invoke its methods, the requests put on the wire, and  *)
(* the classification of HTTP failures into broker errors.                 *)
(*                                                                         *)
(* Python values are tagged records: None, Str(s), Num(n).  A Python       *)
(* string is a sequence of non-empty chunks, so "" is << >>; the strings   *)
(* the classifier searches are sequences of single characters.  The clock  *)
(* counts ticks of 1/TicksPerSecond second, so int(time.time()) truncates. *)
(***************************************************************************)
EXTENDS Integers, Sequences, FiniteSets, TLC

VARIABLES
    access_token,      \* AlpacaBroker.access_token
    refresh_token,     \* AlpacaBroker.refresh_token
    token_expires_at,  \* AlpacaBroker.token_expires_at (None or ticks)
    headers,           \* AlpacaBroker.headers
    now,               \* time.time(), in ticks
    pc,                \* per caller: the statement it is at
    op,                \* per caller: the public method it is running
    frame,             \* per caller: the locals of the running method
    ret,               \* per caller: what its last call returned or raised
    ncalls,            \* per caller: how many public methods it has called
    wire,              \* per caller: the requests its method has issued
    slept,             \* per caller: the time.sleep() calls of its method
    refresh_count,     \* how often the token endpoint has been called
    error,             \* the HTTPError handed to _handle_http_error
    raised             \* what _handle_http_error raised for it

vars ==
    << access_token, refresh_token, token_expires_at, headers, now, pc, op,
       frame, ret, ncalls, wire, slept, refresh_count, error, raised >>

-----------------------------------------------------------------------------
(* Bounds of the model.                                                    *)

NumCallers == 2
MaxCalls == 2
TicksPerSecond == 2
MaxJitter == 1
MaxLifetimes == 1
MaxRetries == 8
MaxLimit == 205

(* Constants of the program.                                               *)

TokenLifetime == 3600
PageSize == 100
BackoffCap == 60
DefaultRetryAfter == 60
DefaultMaxRetries == 3
DefaultLimit == 100

-----------------------------------------------------------------------------
(* Python values.                                                          *)

None == [t |-> "None"]

Str(s) == [t |-> "str", v |-> s]

Num(n) == [t |-> "num", v |-> n]

True == [t |-> "bool", v |-> TRUE]

\* Python truthiness of a value, as `if x` and `not x` evaluate it.
Truthy(x) ==
    CASE x.t = "None" -> FALSE
      [] x.t = "str"  -> x.v # << >>
      [] x.t = "num"  -> x.v # 0
      [] x.t = "bool" -> x.v

EmptyDict == [k \in {} |-> None]

-----------------------------------------------------------------------------
(* Strings of characters: str.lower(), the `in` operator, int(str).        *)

UpperCase ==
    <<"A", "B", "C", "D", "E", "F", "G", "H", "I", "J", "K", "L", "M",
      "N", "O", "P", "Q", "R", "S", "T", "U", "V", "W", "X", "Y", "Z">>

LowerCase ==
    <<"a", "b", "c", "d", "e", "f", "g", "h", "i", "j", "k", "l", "m",
      "n", "o", "p", "q", "r", "s", "t", "u", "v", "w", "x", "y", "z">>

LowerChar(c) ==
    IF \E i \in DOMAIN UpperCase : UpperCase[i] = c
    THEN LowerCase[CHOOSE i \in DOMAIN UpperCase : UpperCase[i] = c]
    ELSE c

\* s.lower()
Lower(s) == [i \in DOMAIN s |-> LowerChar(s[i])]

\* needle in s
Contains(needle, s) ==
    \E i \in 0..(Len(s) - Len(needle)) :
        SubSeq(s, i + 1, i + Len(needle)) = needle

Digits == <<"0", "1", "2", "3", "4", "5", "6", "7", "8", "9">>

IsDigit(c) == \E i \in DOMAIN Digits : Digits[i] = c

DigitVal(c) == (CHOOSE i \in DOMAIN Digits : Digits[i] = c) - 1

RECURSIVE DigitsValue(_)
DigitsValue(s) ==
    IF s = << >> THEN 0
    ELSE 10 * DigitsValue(SubSeq(s, 1, Len(s) - 1)) + DigitVal(s[Len(s)])

\* int(s) for a str s: an optional sign and at least one decimal digit;
\* anything else is a ValueError.
ParseInt(s) ==
    LET signed == s # << >> /\ s[1] \in {"-", "+"}
        body   == IF signed THEN Tail(s) ELSE s
    IN  IF body # << >> /\ \A i \in DOMAIN body : IsDigit(body[i])
        THEN [ok |-> TRUE,
              val |-> IF signed /\ s[1] = "-" THEN 0 - DigitsValue(body)
                      ELSE DigitsValue(body)]
        ELSE [ok |-> FALSE]

-----------------------------------------------------------------------------
(* broker_errors.py: the error classes and what each instance carries.     *)

BrokerError(cls, message, status_code, response) ==
    [exc |-> cls, message |-> message, status_code |-> status_code,
     response |-> response]

BrokerAuthenticationError(message, status_code, response) ==
    BrokerError("BrokerAuthenticationError", message, status_code, response)

\* BrokerRateLimitError.__init__ passing no response to its base class.
BrokerRateLimitError_DropsResponse(message, status_code, response, retry_after) ==
    [exc |-> "BrokerRateLimitError", message |-> message,
     status_code |-> status_code, response |-> None,
     retry_after |-> retry_after]

BrokerRateLimitError(message, status_code, response, retry_after) ==
    [exc |-> "BrokerRateLimitError", message |-> message,
     status_code |-> status_code, response |-> response,
     retry_after |-> retry_after]

BrokerAPIError(message, status_code, response) ==
    BrokerError("BrokerAPIError", message, status_code, response)

OrderValidationError(message, status_code, response) ==
    BrokerError("OrderValidationError", message, status_code, response)

\* raise BrokerNetworkError(message) from cause
BrokerNetworkError(message, cause) ==
    [exc |-> "BrokerNetworkError", message |-> message, status_code |-> None,
     response |-> None, cause |-> cause]

\* An exception of a class that broker_errors.py does not define.
Untyped(cls) == [exc |-> cls]

BrokerErrorClasses ==
    {"BrokerAuthenticationError", "BrokerRateLimitError", "BrokerAPIError",
     "BrokerNetworkError", "OrderValidationError"}

\* An except clause that names the base class BrokerError: it catches every
\* error of the taxonomy.
IsInstance_AnyBrokerError(e, cls) == e.exc \in BrokerErrorClasses

\* isinstance(e, cls): OrderValidationError derives from BrokerAPIError.
IsInstance(e, cls) ==
    \/ e.exc = cls
    \/ e.exc = "OrderValidationError" /\ cls = "BrokerAPIError"

-----------------------------------------------------------------------------
(* The HTTP failures the transport can hand to the client.                 *)

MsgInsufficient ==
    <<"i", "n", "s", "u", "f", "f", "i", "c", "i", "e", "n", "t", " ",
      "f", "u", "n", "d", "s">>

MsgInsufficientCaps ==
    <<"I", "n", "s", "u", "f", "f", "i", "c", "i", "e", "n", "t", " ",
      "F", "u", "n", "d", "s">>

MsgTradingHalted ==
    <<"A", "A", "P", "L", ":", " ", "T", "r", "a", "d", "i", "n", "g", " ",
      "H", "a", "l", "t", "e", "d">>

MsgAssetNotFound ==
    <<"a", "s", "s", "e", "t", " ", "n", "o", "t", " ", "f", "o", "u", "n",
      "d", ":", " ", "X">>

MsgAssetNotFoundCaps ==
    <<"A", "s", "s", "e", "t", " ", "N", "o", "t", " ", "F", "o", "u", "n",
      "d">>

MsgOther ==
    <<"s", "o", "m", "e", " ", "o", "t", "h", "e", "r", " ", "r", "e", "a",
      "s", "o", "n">>

\* str(error) of an HTTPError: the status line the server sent.
TextClientError == <<"C", "l", "i", "e", "n", "t", " ", "E", "r", "r", "o", "r">>

TextInsufficient ==
    <<"E", "r", "r", "o", "r", ":", " ", "i", "n", "s", "u", "f", "f", "i",
      "c", "i", "e", "n", "t", " ", "s", "c", "o", "p", "e">>

\* response.json(): not JSON at all, JSON that is no object, an object
\* without a "message", and objects whose "message" is a string, null or a
\* number.
Bodies ==
    {[kind |-> "invalid"], [kind |-> "list"], [kind |-> "object"]}
    \cup {[kind |-> "object", message |-> Str(m)] :
            m \in {MsgInsufficient, MsgInsufficientCaps, MsgTradingHalted,
                   MsgAssetNotFound, MsgAssetNotFoundCaps, MsgOther, << >>}}
    \cup {[kind |-> "object", message |-> None],
          [kind |-> "object", message |-> Num(TicksPerSecond)]}

\* The clock values the model reaches by ticking.
ClockValues ==
    {k * TokenLifetime * TicksPerSecond + j :
        k \in 0..MaxLifetimes, j \in 0..MaxJitter}

\* The x-ratelimit-reset header: absent (None), or its text.
ResetHeaders ==
    {None, Str(<< >>), Str(<<"0">>), Str(<<"7">>), Str(<<"6", "7">>),
     Str(<<"3", "6", "6", "0">>), Str(<<"6", ".", "5">>),
     Str(<<"s", "o", "o", "n">>)}

StatusCodes == {400, 401, 402, 403, 404, 429, 500, 503}

Responses ==
    {[status_code |-> sc, body |-> b, reset |-> h] :
        sc \in StatusCodes, b \in Bodies, h \in ResetHeaders}

HTTPErrors ==
    {[response |-> r, text |-> x] :
        r \in Responses, x \in {TextClientError, TextInsufficient}}

NoError == [response |-> None]

Nothing == [exc |-> "nothing"]

-----------------------------------------------------------------------------
(* AlpacaBroker._handle_http_error                                         *)

\* Lines 269-274: the message of the error body, or str(error) when the body
\* cannot be read as an object.
ErrorMessage(e) ==
    LET body == e.response.body
    IN  IF body.kind = "object"
        THEN IF "message" \in DOMAIN body THEN body.message ELSE Str(e.text)
        ELSE Str(e.text)

\* Lines 279-281: the retry_after of a 429, or the ValueError of int().
RetryAfter(response, t) ==
    LET retry_after == response.reset
    IN  IF Truthy(retry_after)
        THEN LET parsed == ParseInt(retry_after.v)
             IN  IF parsed.ok
                 THEN [ok |-> TRUE, val |-> parsed.val - (t \div TicksPerSecond)]
                 ELSE [ok |-> FALSE]
        ELSE [ok |-> TRUE, val |-> DefaultRetryAfter]

\* Lines 276-299: the if/elif chain over the status code.
ClassifyByStatus(status_code, message, response, t) ==
    CASE status_code = 401 ->
           BrokerAuthenticationError(message, status_code, response)
      [] status_code = 429 ->
           LET retry_after == RetryAfter(response, t)
           IN  IF retry_after.ok
               THEN BrokerRateLimitError(message, status_code, response,
                                         retry_after.val)
               ELSE Untyped("ValueError")
      [] status_code = 403 ->
           IF message.t # "str" THEN Untyped("AttributeError")
           ELSE IF Contains(<<"i", "n", "s", "u", "f", "f", "i", "c", "i",
                              "e", "n", "t">>, Lower(message.v))
           THEN OrderValidationError(message, status_code, response)
           ELSE IF Contains(<<"t", "r", "a", "d", "i", "n", "g", " ", "h",
                              "a", "l", "t", "e", "d">>, Lower(message.v))
           THEN OrderValidationError(message, status_code, response)
           ELSE BrokerAPIError(message, status_code, response)
      [] status_code = 404 ->
           IF message.t # "str" THEN Untyped("TypeError")
           ELSE IF Contains(<<"a", "s", "s", "e", "t", " ", "n", "o", "t",
                              " ", "f", "o", "u", "n", "d">>, message.v)
           THEN OrderValidationError(message, status_code, response)
           ELSE BrokerAPIError(message, status_code, response)
      [] status_code = 400 ->
           BrokerAPIError(message, status_code, response)
      [] status_code >= 500 ->
           BrokerAPIError(message, status_code, response)
      [] OTHER ->
           BrokerAPIError(message, status_code, response)

\* A classifier that tests the message rules of a 403 before the status
\* code 401.
HandleHttpError_MessageFirst(e, t) ==
    LET response    == e.response
        status_code == response.status_code
        message     == ErrorMessage(e)
    IN  ClassifyByStatus(IF status_code = 401 THEN 403 ELSE status_code,
                         message, response, t)

\* A classifier that applies the message rules of a 403 to every status
\* code that has no branch of its own.
HandleHttpError_MessageRulesForAll(e, t) ==
    LET response    == e.response
        status_code == response.status_code
        message     == ErrorMessage(e)
    IN  ClassifyByStatus(IF status_code \in {401, 429, 403, 404}
                         THEN status_code ELSE 403,
                         message, response, t)

\* What _handle_http_error(error) raises when called at time t.
HandleHttpError(e, t) ==
    LET response    == e.response
        status_code == response.status_code
        message     == ErrorMessage(e)
    IN  ClassifyByStatus(status_code, message, response, t)

-----------------------------------------------------------------------------
(* The state after AlpacaBroker() and before any caller has called.        *)

Callers == 1..NumCallers

InitBroker ==
    /\ access_token = None
    /\ refresh_token = None
    /\ token_expires_at = None
    /\ headers = EmptyDict

InitCallers ==
    /\ pc = [t \in Callers |-> "idle"]
    /\ op = [t \in Callers |-> "none"]
    /\ frame = [t \in Callers |-> << >>]
    /\ ret = [t \in Callers |-> Nothing]
    /\ ncalls = [t \in Callers |-> 0]
    /\ wire = [t \in Callers |-> << >>]
    /\ slept = [t \in Callers |-> << >>]
    /\ refresh_count = 0

Init ==
    /\ InitBroker
    /\ InitCallers
    /\ now = 0
    /\ error = NoError
    /\ raised = Nothing

brokerVars == << access_token, refresh_token, token_expires_at, headers >>

callerVars == << pc, op, frame, ret, ncalls, wire, slept, refresh_count >>

classifyVars == << error, raised >>

-----------------------------------------------------------------------------
(* The classifier on its own: every HTTPError at every clock value.        *)

InitClassify ==
    /\ InitBroker
    /\ InitCallers
    /\ now \in ClockValues
    /\ error \in HTTPErrors
    /\ raised = Nothing

\* One call of _handle_http_error(error).
handle_http_error ==
    /\ error # NoError
    /\ raised = Nothing
    /\ raised' = HandleHttpError(error, now)
    /\ UNCHANGED << error, now, brokerVars, callerVars >>

NextClassify == handle_http_error

SpecClassify == InitClassify /\ [][NextClassify]_vars

Classified == error # NoError /\ raised # Nothing

\* C8: every HTTP failure surfaces as exactly one error of the taxonomy;
\* no other exception escapes the classifier.
C8_AlwaysTypedError ==
    Classified => raised.exc \in BrokerErrorClasses

ResetValue(e) == ParseInt(e.response.reset.v).val

\* C9: a 429 is a BrokerRateLimitError whose retry_after is the reset time
\* minus the current time (to within a second) when the header is there and
\* 60 when it is not, and is never negative: a reset time in the past gives 0.
C9_RetryAfterFlooredAtZero ==
    (/\ Classified
     /\ error.response.status_code = 429
     /\ \/ error.response.reset = None
        \/ /\ error.response.reset.t = "str"
           /\ ParseInt(error.response.reset.v).ok)
    => /\ raised.exc = "BrokerRateLimitError"
       /\ raised.retry_after >= 0
       /\ IF error.response.reset = None
          THEN raised.retry_after = DefaultRetryAfter
          ELSE IF ResetValue(error) * TicksPerSecond <= now
          THEN raised.retry_after = 0
          ELSE LET exact == ResetValue(error) * TicksPerSecond - now
                   got   == raised.retry_after * TicksPerSecond
               IN  got - exact < TicksPerSecond /\ exact - got < TicksPerSecond

\* C10: a 401 is a BrokerAuthenticationError with status code 401, whatever
\* the body and the headers are.
C10_401IsAuthenticationError ==
    (Classified /\ error.response.status_code = 401)
    => /\ raised.exc = "BrokerAuthenticationError"
       /\ raised.status_code = 401

\* A 401 whose body carries the message that makes a 403 an order error,
\* with a rate-limit header present, has been classified.
C10_Witness ==
    /\ Classified
    /\ error.response.status_code = 401
    /\ error.response.body = [kind |-> "object", message |-> Str(MsgInsufficient)]
    /\ error.response.reset = Str(<<"s", "o", "o", "n">>)

\* The message of the error body, when the body is an object whose
\* "message" is a string.
HasBodyMessage(e) ==
    /\ e.response.body.kind = "object"
    /\ "message" \in DOMAIN e.response.body
    /\ e.response.body.message.t = "str"

BodyMessage(e) == e.response.body.message.v

\* C11: a 403 whose body message contains "insufficient" or "trading
\* halted" in any letter case is an OrderValidationError; every other 403,
\* one without a readable message included, is a plain BrokerAPIError.
C11_403ByBodyMessage ==
    (Classified /\ error.response.status_code = 403)
    => IF /\ HasBodyMessage(error)
          /\ \/ Contains(<<"i", "n", "s", "u", "f", "f", "i", "c", "i", "e",
                            "n", "t">>, Lower(BodyMessage(error)))
             \/ Contains(<<"t", "r", "a", "d", "i", "n", "g", " ", "h", "a",
                            "l", "t", "e", "d">>, Lower(BodyMessage(error)))
       THEN raised.exc = "OrderValidationError"
       ELSE raised.exc = "BrokerAPIError"

\* C12: a 404 whose body message contains "asset not found" is an
\* OrderValidationError; every other 404 is a plain BrokerAPIError.
C12_404ByBodyMessage ==
    (Classified /\ error.response.status_code = 404)
    => IF /\ HasBodyMessage(error)
          /\ Contains(<<"a", "s", "s", "e", "t", " ", "n", "o", "t", " ",
                         "f", "o", "u", "n", "d">>, BodyMessage(error))
       THEN raised.exc = "OrderValidationError"
       ELSE raised.exc = "BrokerAPIError"

\* C13: every status code other than 401, 429, 403 and 404 is a plain
\* BrokerAPIError carrying that status code, whatever the body says.
C13_OtherStatusIsAPIError ==
    (Classified /\ error.response.status_code \notin {401, 429, 403, 404})
    => /\ raised.exc = "BrokerAPIError"
       /\ raised.status_code = error.response.status_code

\* A 402 (no branch of its own) whose body message would make a 403 an
\* order error has been classified.
C13_Witness ==
    /\ Classified
    /\ error.response.status_code = 402
    /\ error.response.body = [kind |-> "object", message |-> Str(MsgInsufficientCaps)]

\* C23: when the error body cannot be parsed the message is str(error) and
\* the class follows from the status code alone: 401 an authentication
\* error, 429 a rate-limit error, everything else (403 and 404 included) a
\* plain BrokerAPIError.
C23_UnparseableBodyByStatusOnly ==
    (Classified /\ error.response.body.kind = "invalid")
    => /\ raised.exc \in BrokerErrorClasses
       /\ raised.message = Str(error.text)
       /\ raised.exc =
            CASE error.response.status_code = 401 -> "BrokerAuthenticationError"
              [] error.response.status_code = 429 -> "BrokerRateLimitError"
              [] OTHER -> "BrokerAPIError"

\* C24: every error of the taxonomy that the classifier raises carries the
\* status code and the response object of the HTTP error it was made from.
C24_ErrorCarriesStatusAndResponse ==
    (Classified /\ raised.exc \in BrokerErrorClasses)
    => /\ raised.status_code = error.response.status_code
       /\ raised.response = error.response

\* A 429 with a readable reset header has been classified as a rate-limit
\* error.
C24_Witness ==
    /\ Classified
    /\ error.response.status_code = 429
    /\ error.response.reset = Str(<<"3", "6", "6", "0">>)
    /\ raised.exc = "BrokerRateLimitError"

-----------------------------------------------------------------------------
(* The callers of the client, the clock, and the transport.                *)

MainCaller == CHOOSE t \in Callers : \A u \in Callers : t <= u

LifetimeTicks == TokenLifetime * TicksPerSecond

\* Line 29 with a safety margin of one lifetime: a credential is taken as
\* expired from the moment it is issued.
IsExpired_Early ==
    Truthy(token_expires_at) /\ now + LifetimeTicks >= token_expires_at.v

\* Line 29: self.token_expires_at and time.time() >= self.token_expires_at
IsExpired == Truthy(token_expires_at) /\ now >= token_expires_at.v

Returned(v) == [exc |-> "none", value |-> v]

IsRaise(r) == r.exc \notin {"none", "nothing"}

\* Time passes by one of the given steps: a tick, or a whole token lifetime.
Tick(steps) ==
    /\ \E d \in steps :
          /\ d \in {1, LifetimeTicks}
          /\ d = 1 => (now % LifetimeTicks) < MaxJitter
          /\ d = LifetimeTicks => (now \div LifetimeTicks) < MaxLifetimes
          /\ now' = now + d
    /\ UNCHANGED << brokerVars, callerVars, classifyVars >>

\* The fixture alpaca_broker_authenticated: a fresh broker whose fields the
\* test sets by hand, the Authorization header included.
alpaca_broker_authenticated ==
    /\ InitBroker
    /\ \A t \in Callers : ncalls[t] = 0
    /\ access_token' = Str(<<"test_access_token_12345">>)
    /\ refresh_token' = Str(<<"test_refresh_token_67890">>)
    /\ token_expires_at' = Num(now + LifetimeTicks)
    /\ headers' = ("Authorization" :> Str(<<"Bearer ", "test_access_token_12345">>))
                  @@ ("Content-Type" :> Str(<<"application/json">>))
    /\ UNCHANGED << now, callerVars, classifyVars >>

\* The main caller calls up to MaxCalls methods, one after the other; every
\* other caller is a task that calls one method (as the tasks of the thread
\* pool in test_concurrent_token_refresh).
Budget(t) == IF t = MainCaller THEN MaxCalls ELSE 1

\* A caller that is not inside a method may call one, within its budget.
CanCall(t) == pc[t] \in {"idle", "done"} /\ ncalls[t] < Budget(t)

\* The caller enters method m with locals f and runs it up to statement l,
\* issuing the requests w on the way; r is what the method has returned or
\* raised by then (Nothing while it runs).
Enter(t, m, f, l, w, r) ==
    /\ wire' = [wire EXCEPT ![t] = w]
    /\ ret' = [ret EXCEPT ![t] = r]
    /\ slept' = [slept EXCEPT ![t] = << >>]
    /\ op' = [op EXCEPT ![t] = m]
    /\ frame' = [frame EXCEPT ![t] = f]
    /\ ncalls' = [ncalls EXCEPT ![t] = @ + 1]
    /\ pc' = [pc EXCEPT ![t] = l]

\* The running method returns or raises r.
Finish(t, r) ==
    /\ ret' = [ret EXCEPT ![t] = r]
    /\ pc' = [pc EXCEPT ![t] = "done"]

\* What the server may answer to one request.
OkResponses ==
    {[kind |-> "ok", json |-> [status |-> st]] : st \in {"accepted", "canceled"}}

WireError(sc, b, h) ==
    [response |-> [status_code |-> sc, body |-> b, reset |-> h],
     text |-> TextClientError]

WireErrors ==
    {WireError(401, [kind |-> "invalid"], None),
     WireError(429, [kind |-> "object"], Str(<<"6", "7">>)),
     WireError(429, [kind |-> "object"], Str(<<"s", "o", "o", "n">>)),
     WireError(403, [kind |-> "object", message |-> Str(MsgInsufficient)], None),
     WireError(403, [kind |-> "object", message |-> None], None),
     WireError(500, [kind |-> "invalid"], None)}

WireResponses ==
    OkResponses
    \cup {[kind |-> "Timeout"], [kind |-> "ConnectionError"]}
    \cup {[kind |-> "HTTPError", error |-> e] : e \in WireErrors}

\* requests.get/post/delete(url, headers=self.headers, ...): the request as
\* it goes out, with the credential it was sent under.
Request(t, verb, path, params, json) ==
    [caller |-> t, verb |-> verb, path |-> path, params |-> params,
     json |-> json, headers |-> headers,
     access_token |-> access_token, stale |-> IsExpired,
     answer |-> "none"]

\* The request once the transport has answered it: with a response, an
\* HTTPError, a Timeout or a ConnectionError.
Answered(req, resp) == [req EXCEPT !.answer = resp.kind]

\* The except clauses raise BrokerNetworkError without "from e": the error
\* has no cause.
Outcome_NoCause(resp, parsed, timeout_message) ==
    CASE resp.kind = "ok" -> Returned(parsed)
      [] resp.kind = "HTTPError" -> HandleHttpError(resp.error, now)
      [] resp.kind = "Timeout" ->
           BrokerNetworkError(Str(timeout_message), "None")
      [] resp.kind = "ConnectionError" ->
           BrokerNetworkError(Str(<<"Failed to connect">>), "None")

\* The try/except around a request: the parsed result of a 2xx answer, the
\* classified error of an HTTPError, BrokerNetworkError for a timeout or a
\* connection failure.
Outcome(resp, parsed, timeout_message) ==
    CASE resp.kind = "ok" -> Returned(parsed)
      [] resp.kind = "HTTPError" -> HandleHttpError(resp.error, now)
      [] resp.kind = "Timeout" ->
           BrokerNetworkError(Str(timeout_message), "Timeout")
      [] resp.kind = "ConnectionError" ->
           BrokerNetworkError(Str(<<"Failed to connect">>), "ConnectionError")

-----------------------------------------------------------------------------
(* authenticate, refresh_access_token, refresh_if_needed                   *)

AuthCodes == {Str(<<"code">>)}

\* Line 40, on entry to authenticate(auth_code).
authenticate(t) ==
    /\ CanCall(t)
    /\ \E auth_code \in AuthCodes :
          /\ Enter(t, "authenticate", [auth_code |-> auth_code], "l41",
                   << >>, Nothing)
          /\ access_token' = Str(<<"access_token_">> \o auth_code.v)
    /\ UNCHANGED << refresh_token, token_expires_at, headers, now,
                    refresh_count, classifyVars >>

\* Line 41.
authenticate_l41(t) ==
    /\ pc[t] = "l41"
    /\ refresh_token' = Str(<<"refresh_token_">> \o frame[t].auth_code.v)
    /\ pc' = [pc EXCEPT ![t] = "l42"]
    /\ UNCHANGED << access_token, token_expires_at, headers, now, op, frame,
                    ret, ncalls, wire, slept, refresh_count, classifyVars >>

\* Lines 42-43.
authenticate_l42(t) ==
    /\ pc[t] = "l42"
    /\ token_expires_at' = Num(now + LifetimeTicks)
    /\ Finish(t, Returned(True))
    /\ UNCHANGED << access_token, refresh_token, headers, now, op, frame,
                    ncalls, wire, slept, refresh_count, classifyVars >>

\* The refresh_access_token of line 201 ends the method: no line 202.
AfterRefresh_NoRetry(t) == "done"

\* Where a method goes when the refresh_access_token it called returns.
AfterRefresh(t) ==
    IF op[t] = "place_order_with_auto_refresh" THEN "l202" ELSE "done"

\* Lines 47-48 left out: the refresh goes on without a refresh token.
NoRefreshToken_Never == FALSE

\* Lines 47-48: not self.refresh_token
NoRefreshToken == ~Truthy(refresh_token)

NoRefreshTokenError ==
    BrokerAuthenticationError(Str(<<"No refresh token available">>), None, None)

\* Line 29 of _refresh_if_needed, on entry to refresh_if_needed(): either
\* return True, or enter refresh_access_token.
refresh_if_needed(t) ==
    /\ CanCall(t)
    /\ IF IsExpired
       THEN Enter(t, "refresh_if_needed", [expired |-> TRUE], "l47",
                  << >>, Nothing)
       ELSE Enter(t, "refresh_if_needed", [expired |-> FALSE], "done",
                  << >>, Returned(True))
    /\ UNCHANGED << brokerVars, now, refresh_count, classifyVars >>

\* A direct call of refresh_access_token().
refresh_access_token(t) ==
    /\ CanCall(t)
    /\ Enter(t, "refresh_access_token", << >>, "l47", << >>, Nothing)
    /\ UNCHANGED << brokerVars, now, refresh_count, classifyVars >>

\* Lines 47-48 returning False where they raise: the caller goes on as
\* after a refresh.
refresh_l47_ReturnsFalse(t) ==
    /\ pc[t] = "l47"
    /\ IF NoRefreshToken
       THEN IF AfterRefresh(t) = "done"
            THEN Finish(t, Returned([t |-> "bool", v |-> FALSE]))
            ELSE pc' = [pc EXCEPT ![t] = AfterRefresh(t)] /\ UNCHANGED ret
       ELSE pc' = [pc EXCEPT ![t] = "l51"] /\ UNCHANGED ret
    /\ UNCHANGED << brokerVars, now, op, frame, ncalls, wire, slept,
                    refresh_count, classifyVars >>

\* Lines 47-48 of refresh_access_token.
refresh_l47(t) ==
    /\ pc[t] = "l47"
    /\ IF NoRefreshToken
       THEN Finish(t, NoRefreshTokenError)
       ELSE pc' = [pc EXCEPT ![t] = "l51"] /\ UNCHANGED ret
    /\ UNCHANGED << brokerVars, now, op, frame, ncalls, wire, slept,
                    refresh_count, classifyVars >>

\* Lines 50-51 behind a token lock that a caller keeps while it sleeps in
\* get_account_with_retry.
refresh_l51_WaitsForSleepers(t) ==
    /\ pc[t] = "l51"
    /\ \A u \in Callers : pc[u] # "l78"
    /\ refresh_count' = refresh_count + 1
    /\ access_token' = Str(<<"refreshed_token_">> \o refresh_token.v)
    /\ pc' = [pc EXCEPT ![t] = "l52"]
    /\ UNCHANGED << refresh_token, token_expires_at, headers, now, op, frame,
                    ret, ncalls, wire, slept, classifyVars >>

\* Lines 50-51: the call of the token endpoint and the new access token.
refresh_l51(t) ==
    /\ pc[t] = "l51"
    /\ refresh_count' = refresh_count + 1
    /\ access_token' = Str(<<"refreshed_token_">> \o refresh_token.v)
    /\ pc' = [pc EXCEPT ![t] = "l52"]
    /\ UNCHANGED << refresh_token, token_expires_at, headers, now, op, frame,
                    ret, ncalls, wire, slept, classifyVars >>

\* Line 52 left out: the refresh returns without a new expiry.
refresh_l52_KeepsExpiry(t) ==
    /\ pc[t] = "l52"
    /\ IF AfterRefresh(t) = "done"
       THEN Finish(t, Returned(True))
       ELSE pc' = [pc EXCEPT ![t] = AfterRefresh(t)] /\ UNCHANGED ret
    /\ UNCHANGED << brokerVars, now, op, frame, ncalls, wire, slept,
                    refresh_count, classifyVars >>

\* Line 52 without the lifetime: the new credential expires at once.
refresh_l52_ExpiresNow(t) ==
    /\ pc[t] = "l52"
    /\ token_expires_at' = Num(now)
    /\ IF AfterRefresh(t) = "done"
       THEN Finish(t, Returned(True))
       ELSE pc' = [pc EXCEPT ![t] = AfterRefresh(t)] /\ UNCHANGED ret
    /\ UNCHANGED << access_token, refresh_token, headers, now, op, frame,
                    ncalls, wire, slept, refresh_count, classifyVars >>

\* Lines 52-53.
refresh_l52(t) ==
    /\ pc[t] = "l52"
    /\ token_expires_at' = Num(now + LifetimeTicks)
    /\ IF AfterRefresh(t) = "done"
       THEN Finish(t, Returned(True))
       ELSE pc' = [pc EXCEPT ![t] = AfterRefresh(t)] /\ UNCHANGED ret
    /\ UNCHANGED << access_token, refresh_token, headers, now, op, frame,
                    ncalls, wire, slept, refresh_count, classifyVars >>

-----------------------------------------------------------------------------
(* The request methods: one transport call each.                           *)

Symbols == {"AAPL"}

OrderIds == {"order-1"}

\* A request method that forgets the access token when the transport fails.
CallOnce_DropsTokenOnFailure(t, name, req, parse, timeout_message) ==
    /\ CanCall(t)
    /\ \E resp \in WireResponses :
          /\ Enter(t, name, << >>, "done", <<Answered(req, resp)>>,
                   Outcome(resp,
                           IF resp.kind = "ok" THEN parse[resp] ELSE None,
                           timeout_message))
          /\ access_token' = IF resp.kind \in {"Timeout", "ConnectionError"}
                             THEN None ELSE access_token
    /\ UNCHANGED << refresh_token, token_expires_at, headers, now,
                    refresh_count, classifyVars >>

\* A method that issues request req, parses a 2xx answer with parse and has
\* no other statement: the whole method is one step.
CallOnce(t, name, req, parse, timeout_message) ==
    /\ CanCall(t)
    /\ \E resp \in WireResponses :
          Enter(t, name, << >>, "done", <<Answered(req, resp)>>,
                Outcome(resp,
                        IF resp.kind = "ok" THEN parse[resp] ELSE None,
                        timeout_message))
    /\ UNCHANGED << brokerVars, now, refresh_count, classifyVars >>

Json(resp) == resp.json

\* Lines 55-69.
get_account(t) ==
    CallOnce(t, "get_account",
             Request(t, "GET", <<"/account">>, None, None),
             [resp \in OkResponses |-> Json(resp)],
             <<"Request timed out">>)

ParsePositions(resp) == [parsed |-> "positions", of |-> resp.json]

\* Lines 82-96.
get_positions(t) ==
    CallOnce(t, "get_positions",
             Request(t, "GET", <<"/positions">>, None, None),
             [resp \in OkResponses |-> ParsePositions(resp)],
             <<"Request timed out">>)

ParseAsset(resp) == [parsed |-> "asset", of |-> resp.json]

\* Lines 136-150.
get_asset(t) ==
    \E symbol \in Symbols :
        CallOnce(t, "get_asset",
                 Request(t, "GET", <<"/assets/", symbol>>, None, None),
                 [resp \in OkResponses |-> ParseAsset(resp)],
                 <<"Request timed out">>)

ParseOrderStatus(resp) == [parsed |-> "order_status", of |-> resp.json]

\* Lines 220-234.
get_order_status(t) ==
    \E order_id \in OrderIds :
        CallOnce(t, "get_order_status",
                 Request(t, "GET", <<"/orders/", order_id>>, None, None),
                 [resp \in OkResponses |-> ParseOrderStatus(resp)],
                 <<"Request timed out">>)

IsCanceled(resp) == [t |-> "bool", v |-> resp.json.status = "canceled"]

\* Lines 247-261.
cancel_order(t) ==
    \E order_id \in OrderIds :
        CallOnce(t, "cancel_order",
                 Request(t, "DELETE", <<"/orders/", order_id>>, None, None),
                 [resp \in OkResponses |-> IsCanceled(resp)],
                 <<"Request timed out">>)

-----------------------------------------------------------------------------
(* place_order and place_order_with_auto_refresh                           *)

\* The keyword arguments of place_order that the model varies.
OrderArgs ==
    {[symbol |-> Str(<<"AAPL">>), qty |-> q, side |-> Str(<<"buy">>),
      type |-> Str(<<"market">>), time_in_force |-> Str(<<"day">>),
      limit_price |-> lp, notional |-> n] :
        q \in {Num(10)}, lp \in {None, Num(150)}, n \in {None, Num(0), Num(500)}}

DictSet(d, k, v) == [x \in DOMAIN d \cup {k} |-> IF x = k THEN v ELSE d[x]]

DictDel(d, k) == [x \in DOMAIN d \ {k} |-> d[x]]

\* Lines 168-180 without the del of line 180.
OrderData_KeepsQty(a) ==
    LET base == [k \in {"symbol", "qty", "side", "type", "time_in_force"}
                    |-> a[k]]
        priced == IF a.limit_price # None
                  THEN DictSet(base, "limit_price", a.limit_price)
                  ELSE base
    IN  IF a.notional # None
        THEN DictSet(priced, "notional", a.notional)
        ELSE priced

\* Lines 168-180: the payload of the order.
OrderData(a) ==
    LET base == [k \in {"symbol", "qty", "side", "type", "time_in_force"}
                    |-> a[k]]
        priced == IF a.limit_price # None
                  THEN DictSet(base, "limit_price", a.limit_price)
                  ELSE base
    IN  IF a.notional # None
        THEN DictDel(DictSet(priced, "notional", a.notional), "qty")
        ELSE priced

ParseOrder(resp) == [parsed |-> "order", of |-> resp.json]

PlaceOrderTimeout == <<"Connection timed out after 30 seconds">>

\* place_order(symbol, qty, side, type) with the defaults of the signature.
DefaultOrderArgs == {a \in OrderArgs : a.limit_price = None /\ a.notional = None}

\* Lines 163-194.
place_order(t, orders) ==
    \E a \in orders :
        CallOnce(t, "place_order",
                 Request(t, "POST", <<"/orders">>, None, OrderData(a)),
                 [resp \in OkResponses |-> ParseOrder(resp)],
                 PlaceOrderTimeout)

\* Lines 198-200 with a bare except: any error of the first attempt sends
\* the method into refresh_access_token.
place_order_with_auto_refresh_AnyError(t, orders) ==
    /\ CanCall(t)
    /\ \E a \in orders, resp \in WireResponses :
          LET first == Outcome(resp, ParseOrder(resp), PlaceOrderTimeout)
              f == [kwargs |-> a, outcomes |-> <<first>>,
                    refresh0 |-> refresh_count, credential0 |-> brokerVars]
              w == <<Answered(Request(t, "POST", <<"/orders">>, None,
                                      OrderData(a)), resp)>>
          IN  IF IsRaise(first)
              THEN Enter(t, "place_order_with_auto_refresh", f, "l47", w,
                         Nothing)
              ELSE Enter(t, "place_order_with_auto_refresh", f, "done", w,
                         first)
    /\ UNCHANGED << brokerVars, now, refresh_count, classifyVars >>

\* Lines 198-200: the first place_order(**kwargs) and the except clause.  An
\* authentication error sends the method into refresh_access_token (line
\* 201); anything else ends it.
place_order_with_auto_refresh(t, orders) ==
    /\ CanCall(t)
    /\ \E a \in orders, resp \in WireResponses :
          LET first == Outcome(resp, ParseOrder(resp), PlaceOrderTimeout)
              f == [kwargs |-> a, outcomes |-> <<first>>,
                    refresh0 |-> refresh_count, credential0 |-> brokerVars]
              w == <<Answered(Request(t, "POST", <<"/orders">>, None,
                                      OrderData(a)), resp)>>
          IN  IF IsRaise(first) /\ IsInstance(first, "BrokerAuthenticationError")
              THEN Enter(t, "place_order_with_auto_refresh", f, "l47", w,
                         Nothing)
              ELSE Enter(t, "place_order_with_auto_refresh", f, "done", w,
                         first)
    /\ UNCHANGED << brokerVars, now, refresh_count, classifyVars >>

\* Line 202: the second place_order(**kwargs), whose result is the result.
place_order_l202(t) ==
    /\ pc[t] = "l202"
    /\ \E resp \in WireResponses :
          LET second == Outcome(resp, ParseOrder(resp), PlaceOrderTimeout)
              req == Request(t, "POST", <<"/orders">>, None,
                             OrderData(frame[t].kwargs))
          IN  /\ wire' = [wire EXCEPT ![t] = Append(@, Answered(req, resp))]
              /\ frame' = [frame EXCEPT ![t].outcomes = Append(@, second)]
              /\ Finish(t, second)
    /\ UNCHANGED << brokerVars, now, op, ncalls, slept, refresh_count,
                    classifyVars >>

-----------------------------------------------------------------------------
(* get_account_with_retry                                                  *)

Min(a, b) == IF a <= b THEN a ELSE b

\* Line 78: min(2 ** attempt, 60)
Backoff(attempt) == Min(2 ^ attempt, BackoffCap)

\* Line 77 off by one: the final attempt sleeps and retries too.
MayRetry_FinalToo(attempt, max_retries) == attempt < max_retries

\* Line 77: attempt < max_retries - 1
MayRetry(attempt, max_retries) == attempt < max_retries - 1

\* A loop that tests max_retries after its first attempt: there is always
\* one attempt.
get_account_with_retry_AtLeastOnce(t, choices) ==
    /\ CanCall(t)
    /\ \E max_retries \in choices :
          Enter(t, "get_account_with_retry",
                [max_retries |-> max_retries, attempt |-> 0,
                 outcomes |-> << >>],
                "l75", << >>, Nothing)
    /\ UNCHANGED << brokerVars, now, refresh_count, classifyVars >>

\* Line 73 on entry: range(max_retries) is empty for max_retries <= 0 and the
\* method falls off its end, returning None.
get_account_with_retry(t, choices) ==
    /\ CanCall(t)
    /\ \E max_retries \in choices :
          LET f == [max_retries |-> max_retries, attempt |-> 0,
                    outcomes |-> << >>]
          IN  IF max_retries <= 0
              THEN Enter(t, "get_account_with_retry", f, "done", << >>,
                         Returned(None))
              ELSE Enter(t, "get_account_with_retry", f, "l75", << >>,
                         Nothing)
    /\ UNCHANGED << brokerVars, now, refresh_count, classifyVars >>

\* Lines 74-77 and 80: one get_account() and what the except clause does with
\* its error.
get_account_l75(t) ==
    /\ pc[t] = "l75"
    /\ \E resp \in WireResponses :
          LET r == Outcome(resp, Json(resp), <<"Request timed out">>)
              req == Request(t, "GET", <<"/account">>, None, None)
          IN  /\ wire' = [wire EXCEPT ![t] = Append(@, Answered(req, resp))]
              /\ frame' = [frame EXCEPT ![t].outcomes = Append(@, r)]
              /\ IF /\ IsRaise(r)
                    /\ IsInstance(r, "BrokerRateLimitError")
                    /\ MayRetry(frame[t].attempt, frame[t].max_retries)
                 THEN pc' = [pc EXCEPT ![t] = "l78"] /\ UNCHANGED ret
                 ELSE Finish(t, r)
    /\ UNCHANGED << brokerVars, now, op, ncalls, slept, refresh_count,
                    classifyVars >>

\* Line 78 and line 73 again: the next attempt, or the end of the range,
\* where the method falls off its end and returns None.
get_account_l78(t) ==
    /\ pc[t] = "l78"
    /\ slept' = [slept EXCEPT ![t] = Append(@, Backoff(frame[t].attempt))]
    /\ now' = now + Backoff(frame[t].attempt) * TicksPerSecond
    /\ IF frame[t].attempt + 1 < frame[t].max_retries
       THEN /\ frame' = [frame EXCEPT ![t].attempt = @ + 1]
            /\ pc' = [pc EXCEPT ![t] = "l75"]
            /\ UNCHANGED ret
       ELSE /\ Finish(t, Returned(None))
            /\ UNCHANGED frame
    /\ UNCHANGED << brokerVars, op, ncalls, wire, refresh_count, classifyVars >>

-----------------------------------------------------------------------------
(* get_transactions: a generator, resumed by the consumer's next().        *)

\* Line 118 asks for a full page whatever remains.
BatchSize_FullPage(remaining) == PageSize

\* Line 118 with a page size of 50.
BatchSize_HalfPage(remaining) == Min(remaining, 50)

\* Line 118: min(remaining, 100)
BatchSize(remaining) == Min(remaining, PageSize)

\* get_transactions as a plain function that fetches its first page when it
\* is called, before the consumer asks for one.
get_transactions_Eager(t, limits) ==
    /\ CanCall(t)
    /\ \E limit \in limits :
          Enter(t, "get_transactions",
                [limit |-> limit, offset |-> 0, remaining |-> limit,
                 batch_size |-> 0, yielded |-> 0],
                "l117",
                IF limit > 0
                THEN <<Request(t, "GET", <<"/activities">>,
                               [limit |-> Min(limit, PageSize), offset |-> 0],
                               None)>>
                ELSE << >>,
                Nothing)
    /\ UNCHANGED << brokerVars, now, refresh_count, classifyVars >>

\* The call get_transactions(limit) creates the generator; lines 114-115
\* give offset and remaining their first values.
get_transactions(t, limits) ==
    /\ CanCall(t)
    /\ \E limit \in limits :
          Enter(t, "get_transactions",
                [limit |-> limit, offset |-> 0, remaining |-> limit,
                 batch_size |-> 0, yielded |-> 0],
                "l117", << >>, Nothing)
    /\ UNCHANGED << brokerVars, now, refresh_count, classifyVars >>

\* next() on a generator without line 128: the offset stays where it was.
get_transactions_next_KeepsOffset(t) ==
    /\ pc[t] \in {"l117", "l126"}
    /\ LET f == frame[t]
           remaining == IF pc[t] = "l126" THEN f.remaining - f.batch_size
                        ELSE f.remaining
           offset == f.offset
           batch_size == BatchSize(remaining)
           g == [f EXCEPT !.remaining = remaining, !.offset = offset]
       IN  IF remaining > 0
           THEN \E resp \in WireResponses :
                   LET r == Outcome(resp, Json(resp), <<"Request timed out">>)
                       req == Request(t, "GET", <<"/activities">>,
                                      [limit |-> batch_size, offset |-> offset],
                                      None)
                   IN  /\ wire' = [wire EXCEPT ![t] =
                                      Append(@, Answered(req, resp))]
                       /\ IF IsRaise(r)
                          THEN /\ Finish(t, r)
                               /\ frame' = [frame EXCEPT ![t] =
                                              [g EXCEPT !.batch_size = batch_size]]
                          ELSE /\ pc' = [pc EXCEPT ![t] = "l126"]
                               /\ ret' = [ret EXCEPT ![t] = r]
                               /\ frame' = [frame EXCEPT ![t] =
                                              [g EXCEPT !.batch_size = batch_size,
                                                        !.yielded = @ + 1]]
           ELSE /\ Finish(t, Returned(None))
                /\ frame' = [frame EXCEPT ![t] = g]
                /\ UNCHANGED wire
    /\ UNCHANGED << brokerVars, now, op, ncalls, slept, refresh_count,
                    classifyVars >>

\* next() on the generator: from the yield of line 126 it runs lines 127-128;
\* then line 117 either ends the generator or fetches one more page and
\* yields it, or raises what the fetch raised.
get_transactions_next(t) ==
    /\ pc[t] \in {"l117", "l126"}
    /\ LET f == frame[t]
           remaining == IF pc[t] = "l126" THEN f.remaining - f.batch_size
                        ELSE f.remaining
           offset == IF pc[t] = "l126" THEN f.offset + f.batch_size
                     ELSE f.offset
           batch_size == BatchSize(remaining)
           g == [f EXCEPT !.remaining = remaining, !.offset = offset]
       IN  IF remaining > 0
           THEN \E resp \in WireResponses :
                   LET r == Outcome(resp, Json(resp), <<"Request timed out">>)
                       req == Request(t, "GET", <<"/activities">>,
                                      [limit |-> batch_size, offset |-> offset],
                                      None)
                   IN  /\ wire' = [wire EXCEPT ![t] =
                                      Append(@, Answered(req, resp))]
                       /\ IF IsRaise(r)
                          THEN /\ Finish(t, r)
                               /\ frame' = [frame EXCEPT ![t] =
                                              [g EXCEPT !.batch_size = batch_size]]
                          ELSE /\ pc' = [pc EXCEPT ![t] = "l126"]
                               /\ ret' = [ret EXCEPT ![t] = r]
                               /\ frame' = [frame EXCEPT ![t] =
                                              [g EXCEPT !.batch_size = batch_size,
                                                        !.yielded = @ + 1]]
           ELSE /\ Finish(t, Returned(None))
                /\ frame' = [frame EXCEPT ![t] = g]
                /\ UNCHANGED wire
    /\ UNCHANGED << brokerVars, now, op, ncalls, slept, refresh_count,
                    classifyVars >>

\* The consumer stops iterating and drops the generator at its yield.
get_transactions_close(t) ==
    /\ pc[t] = "l126"
    /\ pc' = [pc EXCEPT ![t] = "done"]
    /\ UNCHANGED << brokerVars, now, op, frame, ret, ncalls, wire, slept,
                    refresh_count, classifyVars >>

-----------------------------------------------------------------------------
(* The credential under concurrent callers.                                *)

NextToken ==
    \/ Tick({1, LifetimeTicks})
    \/ alpaca_broker_authenticated
    \/ \E t \in Callers :
          \/ authenticate(t)
          \/ authenticate_l41(t)
          \/ authenticate_l42(t)
          \/ refresh_if_needed(t)
          \/ refresh_access_token(t)
          \/ refresh_l47(t)
          \/ refresh_l51(t)
          \/ refresh_l52(t)

SpecToken == Init /\ [][NextToken]_vars

\* The callers that have called a method.
Active == {t \in Callers : ncalls[t] > 0}

\* Some caller has called, and every call made so far is a
\* refresh_if_needed() that found the credential expired.
ExpiredWave ==
    /\ Active # {}
    /\ \A t \in Active :
          /\ ncalls[t] = 1
          /\ op[t] = "refresh_if_needed"
          /\ frame[t].expired

\* C1: when N callers invoke refresh_if_needed() on an expired credential,
\* the token endpoint is called exactly once and all N calls return True
\* with the refreshed credential in place.
C1_SingleRefresh ==
    (ExpiredWave /\ \A t \in Active : pc[t] = "done")
    => /\ refresh_count = 1
       /\ \A t \in Active : ret[t] = Returned(True)
       /\ ~IsExpired

\* The step in which caller t calls refresh_if_needed().
CallsRefreshIfNeeded(t) ==
    ncalls'[t] = ncalls[t] + 1 /\ op'[t] = "refresh_if_needed"

\* The step in which caller t returns True at once, with no refresh and the
\* credential as it was.
ReturnsAtOnce(t) ==
    /\ pc'[t] = "done"
    /\ ret'[t] = Returned(True)
    /\ refresh_count' = refresh_count
    /\ brokerVars' = brokerVars

\* C15: refresh_access_token without a refresh token raises
\* BrokerAuthenticationError and leaves access_token, refresh_token and
\* token_expires_at as they were.
C15_NoRefreshTokenRaises ==
    [][\A t \in Callers :
          (pc[t] = "l47" /\ pc'[t] # "l47" /\ ~Truthy(refresh_token))
          => /\ pc'[t] = "done"
             /\ ret'[t].exc = "BrokerAuthenticationError"
             /\ refresh_count' = refresh_count
             /\ brokerVars' = brokerVars]_vars

\* refresh_access_token() on a broker that was never authenticated has
\* raised.
C15_Witness ==
    \E t \in Callers :
        /\ op[t] = "refresh_access_token"
        /\ pc[t] = "done"
        /\ ret[t] = NoRefreshTokenError
        /\ brokerVars = << None, None, None, EmptyDict >>

\* C16: refresh_if_needed on a credential whose token_expires_at is absent
\* or in the future returns True without a refresh and leaves the credential
\* as it was.
C16_FreshCredentialUntouched ==
    [][\A t \in Callers :
          (/\ CallsRefreshIfNeeded(t)
           /\ \/ token_expires_at = None
              \/ now < token_expires_at.v)
          => ReturnsAtOnce(t)]_vars

\* refresh_if_needed() has returned on a credential with an expiry in the
\* future that no refresh has touched.
C16_Witness ==
    \E t \in Callers :
        /\ op[t] = "refresh_if_needed"
        /\ pc[t] = "done"
        /\ ~frame[t].expired
        /\ token_expires_at # None
        /\ access_token = Str(<<"test_access_token_12345">>)
        /\ refresh_count = 0

\* A refresh that refresh_if_needed started on an expired credential has
\* completed.
RefreshCompleted ==
    \E u \in Callers :
        /\ op[u] = "refresh_if_needed"
        /\ frame[u].expired
        /\ pc[u] = "done"
        /\ ret[u] = Returned(True)

\* C17: the refresh of an expired credential leaves a credential that is
\* not expired, and a refresh_if_needed call that comes after it and before
\* the new expiry returns at once without a refresh of its own.
C17_SecondWaveNoRefresh ==
    [][\A t \in Callers :
          /\ (op[t] = "refresh_if_needed" /\ pc[t] = "l52" /\ pc'[t] = "done")
             => ~IsExpired'
          /\ (/\ CallsRefreshIfNeeded(t)
              /\ RefreshCompleted
              /\ now < token_expires_at.v)
             => ReturnsAtOnce(t)]_vars

\* One caller has refreshed the expired credential and another caller's
\* later refresh_if_needed() has returned on the new one.
C17_Witness ==
    \E t, u \in Callers :
        /\ t # u
        /\ op[u] = "refresh_if_needed" /\ frame[u].expired /\ pc[u] = "done"
        /\ op[t] = "refresh_if_needed" /\ ~frame[t].expired /\ pc[t] = "done"
        /\ refresh_count = 1

\* C19: no two callers are at once in the part of refresh_access_token
\* that writes the credential (lines 51-52).
C19_RefreshMutuallyExclusive ==
    Cardinality({t \in Callers : pc[t] \in {"l51", "l52"}}) <= 1

-----------------------------------------------------------------------------
(* The client used by one caller: every public method, default arguments.  *)

TokenSteps(t) ==
    \/ authenticate(t)
    \/ authenticate_l41(t)
    \/ authenticate_l42(t)
    \/ refresh_if_needed(t)
    \/ refresh_access_token(t)
    \/ refresh_l47(t)
    \/ refresh_l51(t)
    \/ refresh_l52(t)

Next ==
    \/ Tick({LifetimeTicks})
    \/ alpaca_broker_authenticated
    \/ TokenSteps(MainCaller)
    \/ get_account(MainCaller)
    \/ get_positions(MainCaller)
    \/ get_asset(MainCaller)
    \/ get_order_status(MainCaller)
    \/ cancel_order(MainCaller)
    \/ place_order(MainCaller, DefaultOrderArgs)
    \/ place_order_with_auto_refresh(MainCaller, DefaultOrderArgs)
    \/ place_order_l202(MainCaller)
    \/ get_account_with_retry(MainCaller, {DefaultMaxRetries})
    \/ get_account_l75(MainCaller)
    \/ get_account_l78(MainCaller)
    \/ get_transactions(MainCaller, {DefaultLimit})
    \/ get_transactions_next(MainCaller)
    \/ get_transactions_close(MainCaller)

Spec == Init /\ [][Next]_vars

-----------------------------------------------------------------------------
(* place_order_with_auto_refresh on every credential one caller can hold.  *)

NextOrder ==
    \/ alpaca_broker_authenticated
    \/ authenticate(MainCaller)
    \/ authenticate_l41(MainCaller)
    \/ authenticate_l42(MainCaller)
    \/ place_order_with_auto_refresh(MainCaller, OrderArgs)
    \/ refresh_l47(MainCaller)
    \/ refresh_l51(MainCaller)
    \/ refresh_l52(MainCaller)
    \/ place_order_l202(MainCaller)

SpecOrder == Init /\ [][NextOrder]_vars

-----------------------------------------------------------------------------
(* get_account_with_retry for every max_retries from -1 up to MaxRetries.  *)

NextRetry ==
    \/ alpaca_broker_authenticated
    \/ get_account_with_retry(MainCaller, (-1)..MaxRetries)
    \/ get_account_l75(MainCaller)
    \/ get_account_l78(MainCaller)

SpecRetry == Init /\ [][NextRetry]_vars

-----------------------------------------------------------------------------
(* get_account_with_retry by one caller while the others refresh the token. *)

NextBackoff ==
    \/ Tick({LifetimeTicks})
    \/ alpaca_broker_authenticated
    \/ get_account_with_retry(MainCaller, {DefaultMaxRetries})
    \/ get_account_l75(MainCaller)
    \/ get_account_l78(MainCaller)
    \/ \E u \in Callers \ {MainCaller} :
          \/ refresh_if_needed(u)
          \/ refresh_access_token(u)
          \/ refresh_l47(u)
          \/ refresh_l51(u)
          \/ refresh_l52(u)

SpecBackoff == Init /\ [][NextBackoff]_vars

-----------------------------------------------------------------------------
(* get_transactions for every limit up to MaxLimit.                        *)

NextPage ==
    \/ alpaca_broker_authenticated
    \/ get_transactions(MainCaller, 0..MaxLimit)
    \/ get_transactions_next(MainCaller)
    \/ get_transactions_close(MainCaller)

SpecPage == Init /\ [][NextPage]_vars

-----------------------------------------------------------------------------
(* Claims about the requests of one caller (Spec).                         *)

Bearer(token) == Str(<<"Bearer ">> \o token.v)

AllRequests ==
    UNION {{wire[t][i] : i \in DOMAIN wire[t]} : t \in Callers}

\* C2: no request goes out under a credential whose token_expires_at is set
\* and in the past.
C2_NoStaleRequest ==
    \A q \in AllRequests : ~q.stale

\* C3: every request sent once an access token is held carries the header
\* "Authorization: Bearer <the access token held when it is sent>".
C3_BearerOfCurrentToken ==
    \A q \in AllRequests :
        q.access_token # None
        => /\ "Authorization" \in DOMAIN q.headers
           /\ q.headers["Authorization"] = Bearer(q.access_token)

\* C14: a request that the transport answers with a timeout or a connection
\* failure is the last request of its method, which ends at once raising
\* BrokerNetworkError with that transport exception as its cause: the
\* request is not repeated and the error is none of the classifier's.
C14_NetworkErrorOnceWithCause ==
    \A t \in Callers :
        \A k \in DOMAIN wire[t] :
            wire[t][k].answer \in {"Timeout", "ConnectionError"}
            => /\ k = Len(wire[t])
               /\ pc[t] = "done"
               /\ ret[t].exc = "BrokerNetworkError"
               /\ ret[t].cause = wire[t][k].answer
               /\ ret[t].status_code = None

\* get_account_with_retry whose second attempt timed out, after a 429.
C14_Witness ==
    \E t \in Callers :
        /\ op[t] = "get_account_with_retry"
        /\ Len(wire[t]) = 2
        /\ wire[t][1].answer = "HTTPError"
        /\ wire[t][2].answer = "Timeout"
        /\ pc[t] = "done"

\* C22: the step in which a request is answered by a timeout or a
\* connection failure leaves access_token, refresh_token and
\* token_expires_at as they were.
C22_NetworkFailureLeavesCredential ==
    [][\A t \in Callers :
          (/\ \/ ncalls'[t] # ncalls[t]
              \/ Len(wire'[t]) > Len(wire[t])
           /\ Len(wire'[t]) > 0
           /\ wire'[t][Len(wire'[t])].answer \in {"Timeout", "ConnectionError"})
          => /\ access_token' = access_token
             /\ refresh_token' = refresh_token
             /\ token_expires_at' = token_expires_at
             /\ headers' = headers]_vars

\* place_order has timed out on a broker that holds a credential.
C22_Witness ==
    \E t \in Callers :
        /\ op[t] = "place_order"
        /\ pc[t] = "done"
        /\ ret[t].exc = "BrokerNetworkError"
        /\ wire[t][1].answer = "Timeout"
        /\ access_token = Str(<<"test_access_token_12345">>)

-----------------------------------------------------------------------------
(* Claims about place_order_with_auto_refresh (SpecOrder).                 *)

InAutoRefresh(t) == op[t] = "place_order_with_auto_refresh"

FirstIsAuthError(t) ==
    /\ InAutoRefresh(t)
    /\ IsRaise(frame[t].outcomes[1])
    /\ frame[t].outcomes[1].exc = "BrokerAuthenticationError"

Refreshes(t) == refresh_count - frame[t].refresh0

\* C4 as claimed: whenever the first attempt fails with an authentication
\* error, the token is refreshed exactly once and the order is sent exactly
\* once more, and the result of that second attempt is the result.
C4_AlwaysRefreshAndRetryOnce ==
    \A t \in Callers :
        (FirstIsAuthError(t) /\ pc[t] = "done")
        => /\ Refreshes(t) = 1
           /\ Len(wire[t]) = 2
           /\ Len(frame[t].outcomes) = 2
           /\ ret[t] = frame[t].outcomes[2]

\* C4 as amended: when the first attempt fails with an authentication error
\* and a refresh token is held, the token is refreshed exactly once and the
\* order is sent exactly once more; the second attempt's result, a success
\* or an error (a second authentication error included), is the result as
\* it is; there is never a second refresh or a third attempt.
C4_RefreshAndRetryOnce ==
    \A t \in Callers :
        InAutoRefresh(t)
        => /\ Len(wire[t]) <= 2
           /\ Refreshes(t) <= 1
           /\ Len(wire[t]) = Len(frame[t].outcomes)
           /\ Len(wire[t]) = 2 => wire[t][2].json = wire[t][1].json
           /\ (FirstIsAuthError(t) /\ pc[t] = "done"
               /\ Truthy(frame[t].credential0[2]))
              => /\ Refreshes(t) = 1
                 /\ Len(wire[t]) = 2
                 /\ ret[t] = frame[t].outcomes[2]

\* Two authentication errors in a row: the second has propagated after one
\* refresh and two attempts.
C4_Witness ==
    \E t \in Callers :
        /\ FirstIsAuthError(t)
        /\ pc[t] = "done"
        /\ Len(frame[t].outcomes) = 2
        /\ frame[t].outcomes[2].exc = "BrokerAuthenticationError"
        /\ ret[t] = frame[t].outcomes[2]
        /\ Refreshes(t) = 1

\* C27: in place_order_with_auto_refresh a first attempt that fails with
\* anything but an authentication error ends the method: the error is the
\* result, there is no refresh and no second request, and the credential is
\* as it was at the call.
C27_OnlyAuthErrorRefreshes ==
    \A t \in Callers :
        (/\ InAutoRefresh(t)
         /\ IsRaise(frame[t].outcomes[1])
         /\ frame[t].outcomes[1].exc # "BrokerAuthenticationError")
        => /\ pc[t] = "done"
           /\ ret[t] = frame[t].outcomes[1]
           /\ Len(wire[t]) = 1
           /\ Refreshes(t) = 0
           /\ brokerVars = frame[t].credential0

\* A first attempt has failed with a rate-limit error on a broker that
\* holds a refresh token.
C27_Witness ==
    \E t \in Callers :
        /\ InAutoRefresh(t)
        /\ frame[t].outcomes[1].exc = "BrokerRateLimitError"
        /\ pc[t] = "done"
        /\ Truthy(refresh_token)

\* C28: the second request of place_order_with_auto_refresh, sent after
\* the forced refresh, carries the Authorization header "Bearer " followed
\* by the refreshed access token.
C28_RetryCarriesRefreshedToken ==
    \A t \in Callers :
        (InAutoRefresh(t) /\ Len(wire[t]) = 2)
        => /\ "Authorization" \in DOMAIN wire[t][2].headers
           /\ wire[t][2].headers["Authorization"] = Bearer(access_token)
           /\ access_token = Str(<<"refreshed_token_">> \o refresh_token.v)

\* C21: the payload of every order holds exactly one of the keys qty and
\* notional: notional, with the value given, when a notional is given (a
\* qty is always given), and qty otherwise.
C21_QtyXorNotional ==
    \A t \in Callers :
        InAutoRefresh(t)
        => \A i \in DOMAIN wire[t] :
              LET order_data == wire[t][i].json
                  kwargs == frame[t].kwargs
              IN  /\ ("qty" \in DOMAIN order_data)
                       # ("notional" \in DOMAIN order_data)
                  /\ IF kwargs.notional # None
                     THEN /\ "notional" \in DOMAIN order_data
                          /\ order_data["notional"] = kwargs.notional
                     ELSE /\ "qty" \in DOMAIN order_data
                          /\ order_data["qty"] = kwargs.qty

\* An order with qty = 10 and notional = 500 has been sent.
C21_Witness ==
    \E t \in Callers :
        /\ InAutoRefresh(t)
        /\ frame[t].kwargs.qty = Num(10)
        /\ frame[t].kwargs.notional = Num(500)
        /\ Len(wire[t]) >= 1
        /\ "qty" \notin DOMAIN wire[t][1].json

-----------------------------------------------------------------------------
(* Claims about get_account_with_retry (SpecRetry).                        *)

InRetry(t) == op[t] = "get_account_with_retry"

IsRateLimit(r) == IsRaise(r) /\ r.exc = "BrokerRateLimitError"

\* C5: a rate-limit error at attempt k that is not the final attempt is
\* followed by a sleep of min(2^k, 60) seconds and another attempt; at the
\* final attempt k = max_retries - 1 it propagates; so there are at most
\* max_retries requests.  With max_retries = 3 and the answers 429, 429,
\* success the method succeeds after the sleeps 1 and 2.
C5_BackoffAndRetryLimit ==
    \A t \in Callers :
        InRetry(t)
        => LET f == frame[t]
               n == Len(f.outcomes)
           IN  /\ Len(wire[t]) = n
               /\ n <= f.max_retries \/ n = 0
               /\ \A k \in 1..(n - 1) : IsRateLimit(f.outcomes[k])
               /\ \A k \in DOMAIN slept[t] :
                     slept[t][k] = IF 2 ^ (k - 1) < 60 THEN 2 ^ (k - 1) ELSE 60
               /\ pc[t] = "l75" => Len(slept[t]) = n /\ n < f.max_retries
               /\ pc[t] = "l78"
                  => /\ Len(slept[t]) = n - 1
                     /\ IsRateLimit(f.outcomes[n])
                     /\ n < f.max_retries
               /\ (pc[t] = "done" /\ f.max_retries >= 1)
                  => /\ Len(slept[t]) = n - 1
                     /\ ret[t] = f.outcomes[n]
                     /\ IsRateLimit(ret[t]) => n = f.max_retries
               /\ (pc[t] = "done" /\ f.max_retries = 3 /\ n = 3
                   /\ ~IsRaise(ret[t]))
                  => slept[t] = <<1, 2>>

\* max_retries = 3, answers 429, 429, success: the account is returned.
C5_Witness ==
    \E t \in Callers :
        /\ InRetry(t)
        /\ pc[t] = "done"
        /\ frame[t].max_retries = 3
        /\ Len(wire[t]) = 3
        /\ IsRateLimit(frame[t].outcomes[1])
        /\ IsRateLimit(frame[t].outcomes[2])
        /\ ~IsRaise(ret[t])
        /\ slept[t] = <<1, 2>>

\* Caller t is inside the time.sleep of line 78.
Sleeping(t) == InRetry(t) /\ pc[t] = "l78"

\* C25: while a caller sleeps in get_account_with_retry every other caller
\* can call refresh_if_needed or refresh_access_token and can take the next
\* step of the refresh it is in: the sleep holds nothing they wait for.
C25_SleepHoldsNoTokenLock ==
    \A t, u \in Callers :
        (t # u /\ Sleeping(t))
        => /\ CanCall(u) => /\ ENABLED refresh_if_needed(u)
                            /\ ENABLED refresh_access_token(u)
           /\ pc[u] = "l47" => ENABLED refresh_l47(u)
           /\ pc[u] = "l51" => ENABLED refresh_l51(u)
           /\ pc[u] = "l52" => ENABLED refresh_l52(u)

\* One caller is in its second sleep and another has refreshed the token
\* in the meantime: the new expiry was set after the first sleep.
C25_Witness ==
    \E t, u \in Callers :
        /\ t # u
        /\ Sleeping(t)
        /\ slept[t] = <<1>>
        /\ op[u] = "refresh_access_token"
        /\ pc[u] = "done"
        /\ ret[u] = Returned(True)
        /\ token_expires_at = Num(now + LifetimeTicks)
        /\ now > 0

\* C26: in get_account_with_retry an error that is not a rate-limit error
\* ends the method at the attempt that met it: it is the result, no sleep
\* follows it, no request follows it and the token is not refreshed.
C26_OnlyRateLimitRetried ==
    \A t \in Callers :
        InRetry(t)
        => \A k \in DOMAIN frame[t].outcomes :
              LET r == frame[t].outcomes[k]
              IN  (IsRaise(r) /\ ~IsRateLimit(r))
                  => /\ k = Len(frame[t].outcomes)
                     /\ Len(wire[t]) = k
                     /\ Len(slept[t]) = k - 1
                     /\ pc[t] = "done"
                     /\ ret[t] = r
                     /\ refresh_count = 0

\* The first attempt met an order validation error (a 403), which
\* propagated at once.
C26_Witness ==
    \E t \in Callers :
        /\ InRetry(t)
        /\ frame[t].max_retries = 3
        /\ Len(frame[t].outcomes) = 1
        /\ frame[t].outcomes[1].exc = "OrderValidationError"
        /\ pc[t] = "done"
        /\ slept[t] = << >>

-----------------------------------------------------------------------------
(* Claims about get_transactions (SpecPage).                               *)

InTransactions(t) == op[t] = "get_transactions"

\* The generator has run to its end: line 117 found remaining <= 0.
Exhausted(t) ==
    InTransactions(t) /\ pc[t] = "done" /\ ret[t] = Returned(None)

RECURSIVE SumOfLimits(_)
SumOfLimits(w) ==
    IF w = << >> THEN 0
    ELSE SumOfLimits(SubSeq(w, 1, Len(w) - 1)) + w[Len(w)].params.limit

\* C6: while every fetch succeeds, the i-th request of get_transactions(limit)
\* asks for min(what remains, 100) items at the offset that is the sum of the
\* earlier batch sizes, starting at 0; when the generator ends the batch
\* sizes sum to limit.  limit = 150 gives the sizes 100, 50 at offsets 0, 100.
C6_PagesCoverLimit ==
    \A t \in Callers :
        InTransactions(t)
        => LET w == wire[t]
               limit == frame[t].limit
           IN  /\ \A i \in DOMAIN w :
                     LET before == SumOfLimits(SubSeq(w, 1, i - 1))
                     IN  /\ w[i].params.offset = before
                         /\ w[i].params.limit =
                              IF limit - before < 100 THEN limit - before
                              ELSE 100
               /\ Exhausted(t) => SumOfLimits(w) = limit
               /\ (Exhausted(t) /\ limit = 150)
                  => /\ Len(w) = 2
                     /\ w[1].params = [limit |-> 100, offset |-> 0]
                     /\ w[2].params = [limit |-> 50, offset |-> 100]

\* get_transactions(150) has run to its end over two pages.
C6_Witness ==
    \E t \in Callers :
        /\ Exhausted(t)
        /\ frame[t].limit = 150
        /\ frame[t].yielded = 2
        /\ Len(wire[t]) = 2

\* C7: a failed page fetch reaches the consumer as an error of the taxonomy
\* and ends the sequence: the failed request is the last one, it follows the
\* pages yielded before it, and nothing more is requested or yielded.
C7_FailureIsTypedAndFinal ==
    \A t \in Callers :
        (InTransactions(t) /\ IsRaise(ret[t]))
        => /\ ret[t].exc \in BrokerErrorClasses
           /\ pc[t] = "done"
           /\ Len(wire[t]) = frame[t].yielded + 1

\* C32: in place_order_with_auto_refresh on a broker without a refresh
\* token, a first attempt that fails with an authentication error is
\* followed by the BrokerAuthenticationError of refresh_access_token, which
\* is the result: the order was sent once and the credential is as it was.
C32_NoRefreshTokenNoRetry ==
    \A t \in Callers :
        (/\ FirstIsAuthError(t)
         /\ ~Truthy(frame[t].credential0[2])
         /\ pc[t] = "done")
        => /\ ret[t] = NoRefreshTokenError
           /\ ret[t] # frame[t].outcomes[1]
           /\ Len(wire[t]) = 1
           /\ Len(frame[t].outcomes) = 1
           /\ Refreshes(t) = 0
           /\ brokerVars = frame[t].credential0

\* A 401 on a broker that was never authenticated: the refresh has raised.
C32_Witness ==
    \E t \in Callers :
        /\ FirstIsAuthError(t)
        /\ pc[t] = "done"
        /\ refresh_token = None
        /\ wire[t][1].answer = "HTTPError"
        /\ ret[t].exc = "BrokerAuthenticationError"

\* C33: get_account_with_retry(max_retries) with max_retries <= 0 sends no
\* request, does not sleep, raises nothing and returns None.
C33_NoAttemptWithoutRetries ==
    \A t \in Callers :
        (InRetry(t) /\ frame[t].max_retries <= 0)
        => /\ pc[t] = "done"
           /\ ret[t] = Returned(None)
           /\ wire[t] = << >>
           /\ slept[t] = << >>
           /\ frame[t].outcomes = << >>

\* get_account_with_retry(-1) has returned.
C33_Witness ==
    \E t \in Callers :
        /\ InRetry(t)
        /\ frame[t].max_retries = -1
        /\ pc[t] = "done"

\* C29: get_transactions(limit) sends nothing until the consumer asks for a
\* page, and then one request per page asked for: at every moment the
\* requests sent are the pages yielded, plus the one whose fetch failed.  A
\* consumer that stops after k pages has caused k requests.
C29_OneRequestPerPageAskedFor ==
    \A t \in Callers :
        InTransactions(t)
        => /\ Len(wire[t]) = frame[t].yielded + (IF IsRaise(ret[t]) THEN 1 ELSE 0)
           /\ pc[t] = "l117" => (Len(wire[t]) = 0 /\ frame[t].yielded = 0)
           /\ \A i \in 1..frame[t].yielded : wire[t][i].answer = "ok"

\* The consumer of get_transactions(205) has stopped after one page, with
\* two pages still to come.
C29_Witness ==
    \E t \in Callers :
        /\ InTransactions(t)
        /\ frame[t].limit = 205
        /\ frame[t].yielded = 1
        /\ pc[t] = "done"
        /\ ~IsRaise(ret[t])
        /\ ret[t] # Returned(None)
        /\ Len(wire[t]) = 1

\* C30: get_transactions(limit) never sends more than ceil(limit / 100)
\* requests, each for 1 to 100 items; drained with every fetch succeeding
\* it ends with remaining = 0 after exactly that many.
C30_DrainedAfterCeilRequests ==
    \A t \in Callers :
        InTransactions(t)
        => /\ Len(wire[t]) <= (frame[t].limit + 99) \div 100
           /\ \A i \in DOMAIN wire[t] : wire[t][i].params.limit \in 1..100
           /\ Exhausted(t)
              => /\ frame[t].remaining = 0
                 /\ Len(wire[t]) = (frame[t].limit + 99) \div 100
                 /\ frame[t].yielded = Len(wire[t])

\* get_transactions(200) has been drained: two full pages and no third
\* request.
C30_Witness ==
    \E t \in Callers :
        /\ Exhausted(t)
        /\ frame[t].limit = 200
        /\ Len(wire[t]) = 2
        /\ frame[t].remaining = 0

\* C31: in every iteration of the loop of get_transactions(limit), whatever
\* the pages held, offset + remaining = limit and 0 <= remaining <= limit;
\* the request of the iteration is sent at that offset; and the offset never
\* decreases from one iteration to the next.
C31_OffsetPlusRemainingIsLimit ==
    /\ [](\A t \in Callers :
            InTransactions(t)
            => /\ frame[t].offset + frame[t].remaining = frame[t].limit
               /\ frame[t].remaining \in 0..frame[t].limit
               /\ (Len(wire[t]) > 0 /\ ~Exhausted(t))
                  => wire[t][Len(wire[t])].params.offset = frame[t].offset)
    /\ [][\A t \in Callers :
            (InTransactions(t) /\ ncalls'[t] = ncalls[t])
            => frame'[t].offset >= frame[t].offset]_vars

\* get_transactions(205) is in its third iteration, after two pages with
\* different content: offset 200, 5 remaining.
C31_Witness ==
    \E t \in Callers :
        /\ InTransactions(t)
        /\ frame[t].limit = 205
        /\ frame[t].offset = 200
        /\ frame[t].remaining = 5
        /\ Len(wire[t]) = 3
        /\ pc[t] = "l126"

=============================================================================
